---- MODULE Spec2Model ----
(***************************************************************************)
(* SoilNet machine-learning module (backend/ml): the feature builder       *)
(* (utils.preprocess_data), the cross-validated evaluation                 *)
(* (models.SoilHumidityRegressor.evaluate), the command-line predictor     *)
(* (server.predict) and the training pipeline (main.main).                 *)
(*                                                                         *)
(* A pandas DataFrame is a record                                          *)
(*   [columns : sequence of column names (their order),                    *)
(*    index   : sequence of row labels (pandas keeps them through sorting  *)
(*              and filtering),                                            *)
(*    data    : sequence of rows, each a function column -> value].        *)
(* A missing value (NaN) of the target column is the empty tuple << >>,    *)
(* a present value v is <<v>>.  A timestamp is a number of hours since a   *)
(* Monday 00:00.                                                           *)
(***************************************************************************)
EXTENDS Integers, Sequences, FiniteSets, TLC

VARIABLES
    df, arg, isTraining, preResult, prePc,         \* utils.preprocess_data
    evalN, evalK, nSplits, foldsRun, evalResult, evalPc,   \* models.evaluate
    argv, modelFile, predPc, inputDict, xNew, predStdout, predExit, predSteps,
    predError,                                     \* server.predict
    trainPc, runId, trainDf, trainXy, trainMetrics, fitted, trainSteps, trainExit,
    trainReports, diskModel, diskMetrics           \* main.main

preVars   == <<df, arg, isTraining, preResult, prePc>>
evalVars  == <<evalN, evalK, nSplits, foldsRun, evalResult, evalPc>>
predVars  == <<argv, modelFile, predPc, inputDict, xNew, predStdout, predExit, predSteps,
               predError>>
trainVars == <<trainPc, runId, trainDf, trainXy, trainMetrics, fitted, trainSteps,
               trainExit, trainReports, diskModel, diskMetrics>>
vars      == <<preVars, evalVars, predVars, trainVars>>

(***************************************************************************)
(* Bounds of the model.                                                    *)
(***************************************************************************)
MaxRows == 4
MaxSchemaRows == 2
MaxN == 5
MaxK == 10
MaxArgs == 8
MaxRuns == 3
MaxTrainRows == 4

Nodes == {1, 2}
Times == {23, 46, 69}
Hums  == {10, 20}

Range(s) == {s[i] : i \in DOMAIN s}

Min(S) == CHOOSE x \in S : \A y \in S : x <= y

(***************************************************************************)
(* Input tables.                                                           *)
(***************************************************************************)
CsvColumns ==
    <<"node_id", "createdAt", "raw_value", "humidity_percent", "voltage",
      "rssi", "sampling_interval", "day_of_week", "hour", "battery">>

CsvRow(r) ==
    [c \in Range(CsvColumns) |->
        CASE c = "node_id"           -> r[1]
          [] c = "createdAt"         -> r[2]
          [] c = "humidity_percent"  -> r[3]
          [] c = "raw_value"         -> 40 * r[3]
          [] c = "rssi"              -> 0 - (50 + r[1])
          [] c = "voltage"           -> 3
          [] c = "sampling_interval" -> 60
          [] c = "hour"              -> 9
          [] c = "day_of_week"       -> 4
          [] OTHER                   -> 1]

Readings == Nodes \X Times \X Hums

RowSeqs(n) ==
    {s \in UNION {[1..m -> Readings] : m \in 0..n} :
        \A i, j \in DOMAIN s : (s[i][1] = s[j][1] /\ s[i][2] = s[j][2]) => i = j}

Table(cols, rows) ==
    LET Present(c) == c \in cols
    IN  [columns |-> SelectSeq(CsvColumns, Present),
         index   |-> [i \in DOMAIN rows |-> i - 1],
         data    |-> [i \in DOMAIN rows |-> [c \in cols |-> CsvRow(rows[i])[c]]]]

TargetTables == {Table(Range(CsvColumns), rows) : rows \in RowSeqs(MaxRows)}

ExampleRows ==
    <<  <<1, 46, 20>>, <<2, 23, 20>>, <<1, 23, 10>>, <<1, 69, 10>>, <<2, 46, 10>>,
        <<2, 69, 20>> >>

ExamplePrefixes(n) ==
    {SubSeq(ExampleRows, 1, m) :
        m \in 0..(IF n < Len(ExampleRows) THEN n ELSE Len(ExampleRows))}

SchemaTables ==
    {Table(cols, rows) :
        cols \in SUBSET Range(CsvColumns), rows \in ExamplePrefixes(MaxSchemaRows)}

InputTables == TargetTables \cup SchemaTables

(***************************************************************************)
(* DataFrame operations used by preprocess_data.                           *)
(***************************************************************************)
HasColumn(d, c) == \E i \in DOMAIN d.columns : d.columns[i] = c

SetColumn(d, c, vals) ==
    [columns |-> IF HasColumn(d, c) THEN d.columns ELSE Append(d.columns, c),
     index   |-> d.index,
     data    |-> [i \in DOMAIN d.data |->
                    [k \in DOMAIN d.data[i] \cup {c} |->
                        IF k = c THEN vals[i] ELSE d.data[i][k]]]]

Hour(t) == t % 24

DayOfWeek(t) == (t \div 24) % 7

TemporalFeatures(d) ==
    IF HasColumn(d, "createdAt")
    THEN LET h == SetColumn(d, "hour", [i \in DOMAIN d.data |-> Hour(d.data[i]["createdAt"])])
         IN  SetColumn(h, "day_of_week",
                       [i \in DOMAIN d.data |-> DayOfWeek(d.data[i]["createdAt"])])
    ELSE d

features ==
    <<"humidity_percent", "raw_value", "rssi", "voltage", "sampling_interval",
      "hour", "day_of_week">>

\* A variant of EnsureFeatures that fills a missing column with 1.
EnsureFeaturesOnes(d) ==
    LET Missing(c) == ~HasColumn(d, c)
    IN  [columns |-> d.columns \o SelectSeq(features, Missing),
         index   |-> d.index,
         data    |-> [i \in DOMAIN d.data |->
                        [k \in DOMAIN d.data[i] \cup Range(features) |->
                            IF k \in DOMAIN d.data[i] THEN d.data[i][k] ELSE 1]]]

\* The loop of lines 42-44: each feature the table lacks is appended, in the
\* order of the list, as a column of zeros.
EnsureFeatures(d) ==
    LET Missing(c) == ~HasColumn(d, c)
    IN  [columns |-> d.columns \o SelectSeq(features, Missing),
         index   |-> d.index,
         data    |-> [i \in DOMAIN d.data |->
                        [k \in DOMAIN d.data[i] \cup Range(features) |->
                            IF k \in DOMAIN d.data[i] THEN d.data[i][k] ELSE 0]]]

KeyLeq(a, b) ==
    \/ a["node_id"] < b["node_id"]
    \/ a["node_id"] = b["node_id"] /\ a["createdAt"] <= b["createdAt"]

RECURSIVE InsertPos(_, _, _)
InsertPos(d, perm, p) ==
    IF perm = << >> THEN <<p>>
    ELSE IF KeyLeq(d.data[perm[Len(perm)]], d.data[p]) THEN Append(perm, p)
    ELSE Append(InsertPos(d, SubSeq(perm, 1, Len(perm) - 1), p), perm[Len(perm)])

RECURSIVE SortPerm(_, _)
SortPerm(d, n) == IF n = 0 THEN << >> ELSE InsertPos(d, SortPerm(d, n - 1), n)

TakeRows(d, perm) ==
    [columns |-> d.columns,
     index   |-> [i \in DOMAIN perm |-> d.index[perm[i]]],
     data    |-> [i \in DOMAIN perm |-> d.data[perm[i]]]]

\* A variant of SortValues that leaves the rows in the table's order.
SortValuesUnsorted(d) == d

SortValues(d) == TakeRows(d, SortPerm(d, Len(d.data)))

\* A variant of GroupShift that shifts the whole column, not each node's.
GroupShiftUngrouped(d) ==
    [i \in DOMAIN d.data |->
        IF i = Len(d.data) THEN << >> ELSE <<d.data[i + 1]["humidity_percent"]>>]

GroupShift(d) ==
    [i \in DOMAIN d.data |->
        LET later == {j \in DOMAIN d.data :
                        j > i /\ d.data[j]["node_id"] = d.data[i]["node_id"]}
        IN  IF later = {} THEN << >> ELSE <<d.data[Min(later)]["humidity_percent"]>>]

RECURSIVE NotNaPos(_, _)
NotNaPos(d, n) ==
    IF n = 0 THEN << >>
    ELSE IF d.data[n]["humidity_future"] = << >> THEN NotNaPos(d, n - 1)
    ELSE Append(NotNaPos(d, n - 1), n)

DropNa(d) == TakeRows(d, NotNaPos(d, Len(d.data)))

\* A variant of SelectColumns that keeps the order the table's columns have.
SelectColumnsInTableOrder(d, cols) ==
    LET Wanted(c) == c \in Range(cols)
    IN  [columns |-> SelectSeq(d.columns, Wanted),
         index   |-> d.index,
         data    |-> [i \in DOMAIN d.data |-> [k \in Range(cols) |-> d.data[i][k]]]]

SelectColumns(d, cols) ==
    [columns |-> cols,
     index   |-> d.index,
     data    |-> [i \in DOMAIN d.data |-> [k \in Range(cols) |-> d.data[i][k]]]]

NoFrame == [columns |-> << >>, index |-> << >>, data |-> << >>]

Raise(e) == [kind |-> "raise", error |-> e, X |-> NoFrame, y |-> << >>]

TrainingBranch(d) ==
    IF ~HasColumn(d, "node_id") \/ ~HasColumn(d, "createdAt")
    THEN Raise("KeyError")
    ELSE LET sorted  == SortValues(d)
             shifted == SetColumn(sorted, "humidity_future", GroupShift(sorted))
             kept    == DropNa(shifted)
         IN  [kind |-> "return", error |-> "",
              X |-> SelectColumns(kept, features),
              y |-> [i \in DOMAIN kept.data |-> kept.data[i]["humidity_future"][1]]]

InferenceBranch(d) ==
    [kind |-> "return", error |-> "", X |-> SelectColumns(d, features), y |-> << >>]

PreprocessData(d, training) ==
    LET complete == EnsureFeatures(TemporalFeatures(d))
    IN  IF training THEN TrainingBranch(complete) ELSE InferenceBranch(complete)

(***************************************************************************)
(* utils.preprocess_data as a call: df is the caller's table, which the    *)
(* function changes in place up to the completion of the feature columns   *)
(* (the training branch then works on copies); arg is the table as it was  *)
(* passed.                                                                 *)
(***************************************************************************)
NoResult == [kind |-> "none", error |-> "", X |-> NoFrame, y |-> << >>]

PreInit ==
    /\ df \in InputTables
    /\ arg = df
    /\ isTraining = FALSE
    /\ preResult = NoResult
    /\ prePc = "call"

PreIdle ==
    /\ df = NoFrame
    /\ arg = NoFrame
    /\ isTraining = FALSE
    /\ preResult = NoResult
    /\ prePc = "off"

Preprocess(training) ==
    /\ prePc = "call"
    /\ isTraining' = training
    /\ df' = EnsureFeatures(TemporalFeatures(df))
    /\ preResult' = PreprocessData(df, training)
    /\ prePc' = "done"
    /\ UNCHANGED arg

PreprocessTraining ==
    /\ Preprocess(TRUE)
    /\ UNCHANGED <<evalVars, predVars, trainVars>>

PreprocessInference ==
    /\ Preprocess(FALSE)
    /\ UNCHANGED <<evalVars, predVars, trainVars>>

(***************************************************************************)
(* models.SoilHumidityRegressor.evaluate.  The regressor and scikit-learn  *)
(* are external: KFold rejects n_splits below 2, the split rejects more    *)
(* folds than samples, every fold is one fit and one score of the model,   *)
(* and a fit may fail.  A rational is a pair <<numerator, denominator>>;   *)
(* rmse_std is kept as its square (the population variance).               *)
(***************************************************************************)
DefaultKFolds == 5

Scores == {0, 2}

\* A variant of ClampFolds without the adjustment to the dataset's size.
ClampFoldsRequested(n, k) == k

ClampFolds(n, k) == IF n < k THEN n ELSE k

SkipsEvaluation(n, k) == n < k /\ ClampFolds(n, k) < 2

KFoldAccepts(k) == k >= 2

SplitAccepts(n, k) == k <= n

RECURSIVE SumSeq(_)
SumSeq(s) == IF s = << >> THEN 0 ELSE s[Len(s)] + SumSeq(SubSeq(s, 1, Len(s) - 1))

Squares(s) == [i \in DOMAIN s |-> s[i] * s[i]]

DegenerateMetrics ==
    [kind |-> "return", error |-> "", rmse_mean |-> <<0, 1>>, rmse_std |-> <<0, 1>>]

CvMetrics(scores) ==
    [kind |-> "return", error |-> "",
     rmse_mean |-> <<SumSeq(scores), Len(scores)>>,
     rmse_std  |-> <<Len(scores) * SumSeq(Squares(scores)) - SumSeq(scores) * SumSeq(scores),
                     Len(scores) * Len(scores)>>]

EvalRaise(e) == [kind |-> "raise", error |-> e, rmse_mean |-> <<0, 1>>, rmse_std |-> <<0, 1>>]

NoMetrics == [kind |-> "none", error |-> "", rmse_mean |-> <<0, 1>>, rmse_std |-> <<0, 1>>]

EvalInit ==
    /\ evalN \in 0..MaxN
    /\ evalK \in 0..MaxK
    /\ nSplits = 0
    /\ foldsRun = << >>
    /\ evalResult = NoMetrics
    /\ evalPc = "call"

EvalIdle ==
    /\ evalN = 0
    /\ evalK = DefaultKFolds
    /\ nSplits = 0
    /\ foldsRun = << >>
    /\ evalResult = NoMetrics
    /\ evalPc = "off"

\* Lines 37-42: the adjustment for small datasets, then KFold.
EvaluateEnter ==
    /\ evalPc = "call"
    /\ IF SkipsEvaluation(evalN, evalK)
       THEN /\ evalResult' = DegenerateMetrics
            /\ evalPc' = "done"
            /\ UNCHANGED nSplits
       ELSE IF KFoldAccepts(ClampFolds(evalN, evalK))
                 /\ SplitAccepts(evalN, ClampFolds(evalN, evalK))
            THEN /\ nSplits' = ClampFolds(evalN, evalK)
                 /\ evalPc' = "cv"
                 /\ UNCHANGED evalResult
            ELSE /\ evalResult' = EvalRaise("ValueError")
                 /\ evalPc' = "done"
                 /\ UNCHANGED nSplits
    /\ UNCHANGED <<evalN, evalK, foldsRun>>
    /\ UNCHANGED <<preVars, predVars, trainVars>>

\* Line 45: one fold of cross_val_score, fitted and scored.
FitFold ==
    /\ evalPc = "cv"
    /\ Len(foldsRun) < nSplits
    /\ \E s \in Scores : foldsRun' = Append(foldsRun, s)
    /\ UNCHANGED <<evalN, evalK, nSplits, evalResult, evalPc>>
    /\ UNCHANGED <<preVars, predVars, trainVars>>

\* Line 45: the model fails inside a fold; nothing in evaluate catches it.
FitFoldFails ==
    /\ evalPc = "cv"
    /\ Len(foldsRun) < nSplits
    /\ evalResult' = EvalRaise("CapabilityFailure")
    /\ evalPc' = "done"
    /\ UNCHANGED <<evalN, evalK, nSplits, foldsRun>>
    /\ UNCHANGED <<preVars, predVars, trainVars>>

\* Lines 48-53: the mean and the deviation of the folds' RMSE.
EvaluateReturn ==
    /\ evalPc = "cv"
    /\ Len(foldsRun) = nSplits
    /\ evalResult' = CvMetrics(foldsRun)
    /\ evalPc' = "done"
    /\ UNCHANGED <<evalN, evalK, nSplits, foldsRun>>
    /\ UNCHANGED <<preVars, predVars, trainVars>>


(***************************************************************************)
(* server.predict.  argv holds the positional arguments (sys.argv without  *)
(* the script's name).  An exit status is << >> while the process runs and *)
(* <<code>> once it has ended.  predSteps records the steps the run has    *)
(* entered, in order.                                                      *)
(***************************************************************************)
RequiredArgc == 8

Tokens == {"7", "7.0", "abc"}

\* Python's float(): a decimal literal with or without a fraction.
ParseFloat(t) ==
    IF t \in {"7", "7.0"} THEN [ok |-> TRUE, value |-> 7] ELSE [ok |-> FALSE, value |-> 0]

\* Python's int(): digits only; "7.0" is a ValueError.
ParseInt(t) ==
    IF t = "7" THEN [ok |-> TRUE, value |-> 7] ELSE [ok |-> FALSE, value |-> 0]

ParseArg(k, t) == IF k <= 4 THEN ParseFloat(t) ELSE ParseInt(t)

\* The positions whose conversion raises: sys.argv[k] out of range
\* (IndexError) or not a number of the kind wanted (ValueError).
BadArgs(a) == {k \in 1..Len(features) : k \notin DOMAIN a \/ ~ParseArg(k, a[k]).ok}

ArgsParse(a) == BadArgs(a) = {}

ParseError(a) == IF Min(BadArgs(a)) \in DOMAIN a THEN "ValueError" ELSE "IndexError"

InputDict(a) == [c \in Range(features) |->
                    ParseArg(CHOOSE k \in DOMAIN features : features[k] = c,
                             a[CHOOSE k \in DOMAIN features : features[k] = c]).value]

OneRowFrame(row) == [columns |-> features, index |-> <<0>>, data |-> <<row>>]

InsufficientArgs == [error |-> "Argumentos insuficientes", status |-> "", prediction |-> << >>]

FailedObject(e) == [error |-> e, status |-> "failed", prediction |-> << >>]

SuccessObject(v) == [error |-> "", status |-> "success", prediction |-> <<v>>]

IsSuccessShape(o) == o.prediction # << >>

IsErrorShape(o) == o.error # "" /\ o.prediction = << >>

PredInit ==
    /\ argv \in UNION {[1..m -> Tokens] : m \in 0..MaxArgs}
    /\ modelFile \in {"missing", "present"}
    /\ predPc = "check"
    /\ inputDict = << >>
    /\ xNew = NoFrame
    /\ predStdout = << >>
    /\ predExit = << >>
    /\ predSteps = << >>
    /\ predError = ""

PredIdle ==
    /\ argv = << >>
    /\ modelFile = "missing"
    /\ predPc = "off"
    /\ inputDict = << >>
    /\ xNew = NoFrame
    /\ predStdout = << >>
    /\ predExit = << >>
    /\ predSteps = << >>
    /\ predError = ""

\* A variant of CheckArgs that lets six arguments through.
CheckArgsOffByOne ==
    /\ predPc = "check"
    /\ predSteps' = Append(predSteps, "check")
    /\ IF Len(argv) + 1 < RequiredArgc - 1
       THEN /\ predStdout' = Append(predStdout, InsufficientArgs)
            /\ predExit' = <<1>>
            /\ predPc' = "exited"
       ELSE /\ predPc' = "parse"
            /\ UNCHANGED <<predStdout, predExit>>
    /\ UNCHANGED <<argv, modelFile, inputDict, xNew, predError>>
    /\ UNCHANGED <<preVars, evalVars, trainVars>>

\* Lines 33-36: the argument count, before the try block.
CheckArgs ==
    /\ predPc = "check"
    /\ predSteps' = Append(predSteps, "check")
    /\ IF Len(argv) + 1 < RequiredArgc
       THEN /\ predStdout' = Append(predStdout, InsufficientArgs)
            /\ predExit' = <<1>>
            /\ predPc' = "exited"
       ELSE /\ predPc' = "parse"
            /\ UNCHANGED <<predStdout, predExit>>
    /\ UNCHANGED <<argv, modelFile, inputDict, xNew, predError>>
    /\ UNCHANGED <<preVars, evalVars, trainVars>>

\* Lines 40-48: the seven conversions.
ParseArgs ==
    /\ predPc = "parse"
    /\ predSteps' = Append(predSteps, "parse")
    /\ IF ArgsParse(argv)
       THEN /\ inputDict' = InputDict(argv)
            /\ predPc' = "features"
            /\ UNCHANGED predError
       ELSE /\ predError' = ParseError(argv)
            /\ predPc' = "except"
            /\ UNCHANGED inputDict
    /\ UNCHANGED <<argv, modelFile, xNew, predStdout, predExit>>
    /\ UNCHANGED <<preVars, evalVars, trainVars>>

\* Lines 51-54: the one-row table and preprocess_data in inference mode.
BuildFeatures ==
    /\ predPc = "features"
    /\ predSteps' = Append(predSteps, "features")
    /\ LET r == PreprocessData(OneRowFrame(inputDict), FALSE)
       IN  IF r.kind = "return"
           THEN /\ xNew' = r.X
                /\ predPc' = "load"
                /\ UNCHANGED predError
           ELSE /\ predError' = r.error
                /\ predPc' = "except"
                /\ UNCHANGED xNew
    /\ UNCHANGED <<argv, modelFile, inputDict, predStdout, predExit>>
    /\ UNCHANGED <<preVars, evalVars, trainVars>>

\* Line 57 and utils.load_model: the artifact must exist.
LoadModel ==
    /\ predPc = "load"
    /\ predSteps' = Append(predSteps, "load")
    /\ IF modelFile = "present"
       THEN /\ predPc' = "predict"
            /\ UNCHANGED predError
       ELSE /\ predError' = "FileNotFoundError"
            /\ predPc' = "except"
    /\ UNCHANGED <<argv, modelFile, inputDict, xNew, predStdout, predExit>>
    /\ UNCHANGED <<preVars, evalVars, trainVars>>

\* Line 60: the model's predict, which may raise.
ModelPredict ==
    /\ predPc = "predict"
    /\ predSteps' = Append(predSteps, "predict")
    /\ \E ok \in BOOLEAN :
          IF ok
          THEN /\ predPc' = "print"
               /\ UNCHANGED predError
          ELSE /\ predError' = "CapabilityFailure"
               /\ predPc' = "except"
    /\ UNCHANGED <<argv, modelFile, inputDict, xNew, predStdout, predExit>>
    /\ UNCHANGED <<preVars, evalVars, trainVars>>

\* Lines 63-67: the success object; the function returns and the process ends.
PrintResult ==
    /\ predPc = "print"
    /\ predSteps' = Append(predSteps, "print")
    /\ \E v \in Hums : predStdout' = Append(predStdout, SuccessObject(v))
    /\ predExit' = <<0>>
    /\ predPc' = "exited"
    /\ UNCHANGED <<argv, modelFile, inputDict, xNew, predError>>
    /\ UNCHANGED <<preVars, evalVars, trainVars>>

\* A variant of ExceptHandler that prints the error and returns.
ExceptHandlerNoExit ==
    /\ predPc = "except"
    /\ predSteps' = Append(predSteps, "except")
    /\ predStdout' = Append(predStdout, FailedObject(predError))
    /\ predExit' = <<0>>
    /\ predPc' = "exited"
    /\ UNCHANGED <<argv, modelFile, inputDict, xNew, predError>>
    /\ UNCHANGED <<preVars, evalVars, trainVars>>

\* Lines 69-72: the handler of the try block.
ExceptHandler ==
    /\ predPc = "except"
    /\ predSteps' = Append(predSteps, "except")
    /\ predStdout' = Append(predStdout, FailedObject(predError))
    /\ predExit' = <<1>>
    /\ predPc' = "exited"
    /\ UNCHANGED <<argv, modelFile, inputDict, xNew, predError>>
    /\ UNCHANGED <<preVars, evalVars, trainVars>>


(***************************************************************************)
(* main.main, run again and again (the retraining job).  The two artifacts *)
(* on disk are records [run, complete]: the run that wrote the file last,  *)
(* and whether that write finished; run 0 is "no file".  An exception no   *)
(* handler catches ends the interpreter with status 1.  trainSteps records *)
(* the steps the run has entered, trainReports the failures it reported.   *)
(***************************************************************************)
TrainTables ==
    {Table(Range(CsvColumns) \ missing, rows) :
        missing \in {{}, {"node_id"}, {"createdAt"}},
        rows \in ExamplePrefixes(MaxTrainRows)}

NoFile == [run |-> 0, complete |-> FALSE]

WriteOutcomes == {"written", "not written", "partly written"}

\* What a dump to `file` by run `r` leaves on disk.
AfterWrite(file, r, outcome) ==
    CASE outcome = "written"        -> [run |-> r, complete |-> TRUE]
      [] outcome = "partly written" -> [run |-> r, complete |-> FALSE]
      [] OTHER                      -> file

TrainInit ==
    /\ trainPc = "idle"
    /\ runId = 0
    /\ trainDf = NoFrame
    /\ trainXy = NoResult
    /\ trainMetrics = NoMetrics
    /\ fitted = FALSE
    /\ trainSteps = << >>
    /\ trainExit = << >>
    /\ trainReports = << >>
    /\ diskModel = NoFile
    /\ diskMetrics = NoFile

TrainIdle ==
    /\ trainPc = "off"
    /\ runId = 0
    /\ trainDf = NoFrame
    /\ trainXy = NoResult
    /\ trainMetrics = NoMetrics
    /\ fitted = FALSE
    /\ trainSteps = << >>
    /\ trainExit = << >>
    /\ trainReports = << >>
    /\ diskModel = NoFile
    /\ diskMetrics = NoFile

\* A variant of Uncaught in which the failure is reported and the run ends
\* with status 0.
UncaughtStatusZero(step) ==
    /\ trainReports' = Append(trainReports, step)
    /\ trainExit' = <<0>>
    /\ trainPc' = "exited"

\* An exception that reaches the top of main: traceback, status 1.
Uncaught(step) ==
    /\ trainReports' = Append(trainReports, step)
    /\ trainExit' = <<1>>
    /\ trainPc' = "exited"

\* The job starts the script (lines 81-82).
StartRun ==
    /\ trainPc \in {"idle", "exited"}
    /\ runId < MaxRuns
    /\ runId' = runId + 1
    /\ trainPc' = "load"
    /\ trainDf' = NoFrame
    /\ trainXy' = NoResult
    /\ trainMetrics' = NoMetrics
    /\ fitted' = FALSE
    /\ trainSteps' = << >>
    /\ trainExit' = << >>
    /\ trainReports' = << >>
    /\ UNCHANGED <<diskModel, diskMetrics>>
    /\ UNCHANGED <<preVars, evalVars, predVars>>

\* Lines 42-48: load_dataset inside the only try block of main.
LoadDataset ==
    /\ trainPc = "load"
    /\ trainSteps' = Append(trainSteps, "load")
    /\ \/ /\ trainDf' \in TrainTables
          /\ trainPc' = "preprocess"
          /\ UNCHANGED <<trainExit, trainReports>>
       \/ /\ trainReports' = Append(trainReports, "load")
          /\ trainExit' = <<1>>
          /\ trainPc' = "exited"
          /\ UNCHANGED trainDf
    /\ UNCHANGED <<runId, trainXy, trainMetrics, fitted, diskModel, diskMetrics>>
    /\ UNCHANGED <<preVars, evalVars, predVars>>

\* Line 52: preprocess_data(df, is_training=True); the call completes the
\* feature columns of main's own table in place.
PreprocessStep ==
    /\ trainPc = "preprocess"
    /\ trainSteps' = Append(trainSteps, "preprocess")
    /\ trainDf' = EnsureFeatures(TemporalFeatures(trainDf))
    /\ LET r == PreprocessData(trainDf, TRUE)
       IN  IF r.kind = "return"
           THEN /\ trainXy' = r
                /\ trainPc' = "evaluate"
                /\ UNCHANGED <<trainExit, trainReports>>
           ELSE /\ Uncaught("preprocess")
                /\ UNCHANGED trainXy
    /\ UNCHANGED <<runId, trainMetrics, fitted, diskModel, diskMetrics>>
    /\ UNCHANGED <<preVars, evalVars, predVars>>

\* The outcomes of regressor.evaluate(X, y) with the default fold count.
EvaluateOutcomes(n) ==
    IF SkipsEvaluation(n, DefaultKFolds) THEN {DegenerateMetrics}
    ELSE IF KFoldAccepts(ClampFolds(n, DefaultKFolds))
            /\ SplitAccepts(n, ClampFolds(n, DefaultKFolds))
         THEN {CvMetrics(s) : s \in [1..ClampFolds(n, DefaultKFolds) -> Scores]}
              \cup {EvalRaise("CapabilityFailure")}
         ELSE {EvalRaise("ValueError")}

\* Lines 61-68: the evaluation and the run's metadata.
EvaluateStep ==
    /\ trainPc = "evaluate"
    /\ trainSteps' = Append(trainSteps, "evaluate")
    /\ \E m \in EvaluateOutcomes(Len(trainXy.X.data)) :
          IF m.kind = "return"
          THEN /\ trainMetrics' = m
               /\ trainPc' = "train"
               /\ UNCHANGED <<trainExit, trainReports>>
          ELSE /\ Uncaught("evaluate")
               /\ UNCHANGED trainMetrics
    /\ UNCHANGED <<runId, trainDf, trainXy, fitted, diskModel, diskMetrics>>
    /\ UNCHANGED <<preVars, evalVars, predVars>>

\* The forest's fit rejects a table without rows, and may fail otherwise.
FitOutcomes(n) == IF n = 0 THEN {FALSE} ELSE BOOLEAN

\* Line 72: regressor.train(X, y).
TrainStep ==
    /\ trainPc = "train"
    /\ trainSteps' = Append(trainSteps, "train")
    /\ \E ok \in FitOutcomes(Len(trainXy.X.data)) :
          IF ok
          THEN /\ fitted' = TRUE
               /\ trainPc' = "save_model"
               /\ UNCHANGED <<trainExit, trainReports>>
          ELSE /\ Uncaught("train")
               /\ UNCHANGED fitted
    /\ UNCHANGED <<runId, trainDf, trainXy, trainMetrics, diskModel, diskMetrics>>
    /\ UNCHANGED <<preVars, evalVars, predVars>>

\* Line 76 and utils.save_model.
SaveModel ==
    /\ trainPc = "save_model"
    /\ trainSteps' = Append(trainSteps, "save_model")
    /\ \E outcome \in WriteOutcomes :
          /\ diskModel' = AfterWrite(diskModel, runId, outcome)
          /\ IF outcome = "written"
             THEN /\ trainPc' = "save_metrics"
                  /\ UNCHANGED <<trainExit, trainReports>>
             ELSE Uncaught("save_model")
    /\ UNCHANGED <<runId, trainDf, trainXy, trainMetrics, fitted, diskMetrics>>
    /\ UNCHANGED <<preVars, evalVars, predVars>>

\* Line 77 and utils.save_metrics.
SaveMetrics ==
    /\ trainPc = "save_metrics"
    /\ trainSteps' = Append(trainSteps, "save_metrics")
    /\ \E outcome \in WriteOutcomes :
          /\ diskMetrics' = AfterWrite(diskMetrics, runId, outcome)
          /\ IF outcome = "written"
             THEN /\ trainPc' = "finish"
                  /\ UNCHANGED <<trainExit, trainReports>>
             ELSE Uncaught("save_metrics")
    /\ UNCHANGED <<runId, trainDf, trainXy, trainMetrics, fitted, diskModel>>
    /\ UNCHANGED <<preVars, evalVars, predVars>>

\* Line 79: main returns and the interpreter ends with status 0.
Finish ==
    /\ trainPc = "finish"
    /\ trainSteps' = Append(trainSteps, "finish")
    /\ trainExit' = <<0>>
    /\ trainPc' = "exited"
    /\ UNCHANGED <<runId, trainDf, trainXy, trainMetrics, fitted, trainReports,
                   diskModel, diskMetrics>>
    /\ UNCHANGED <<preVars, evalVars, predVars>>

(***************************************************************************)
(* The specifications: one per entry point.                                *)
(***************************************************************************)
NextPreprocess == PreprocessTraining \/ PreprocessInference

InitPreprocess == PreInit /\ EvalIdle /\ PredIdle /\ TrainIdle

SpecPreprocess == InitPreprocess /\ [][NextPreprocess]_vars

NextEvaluate == EvaluateEnter \/ FitFold \/ FitFoldFails \/ EvaluateReturn

InitEvaluate == PreIdle /\ EvalInit /\ PredIdle /\ TrainIdle

SpecEvaluate == InitEvaluate /\ [][NextEvaluate]_vars

NextPredict ==
    \/ CheckArgs
    \/ ParseArgs
    \/ BuildFeatures
    \/ LoadModel
    \/ ModelPredict
    \/ PrintResult
    \/ ExceptHandler

InitPredict == PreIdle /\ EvalIdle /\ PredInit /\ TrainIdle

SpecPredict == InitPredict /\ [][NextPredict]_vars

\* The interpreter runs the script to its end: one thread, no waiting.
SpecPredictRuns == SpecPredict /\ WF_vars(NextPredict)

NextTrain ==
    \/ StartRun
    \/ LoadDataset
    \/ PreprocessStep
    \/ EvaluateStep
    \/ TrainStep
    \/ SaveModel
    \/ SaveMetrics
    \/ Finish

InitTrain == PreIdle /\ EvalIdle /\ PredIdle /\ TrainInit

SpecTrain == InitTrain /\ [][NextTrain]_vars


(***************************************************************************)
(* Properties of preprocess_data (SpecPreprocess).                         *)
(***************************************************************************)
PreReturned == prePc = "done" /\ preResult.kind = "return"

\* The row of the caller's table a row of X comes from (pandas row labels
\* count from 0, positions from 1).
SourcePos(i) == preResult.X.index[i] + 1

\* The readings of the node of row p that are later than row p and, among
\* those, earliest: the chronologically next reading of the same node.
NextReadings(t, p) ==
    {q \in DOMAIN t.data :
        /\ t.data[q]["node_id"] = t.data[p]["node_id"]
        /\ t.data[q]["createdAt"] > t.data[p]["createdAt"]
        /\ \A r \in DOMAIN t.data :
              (t.data[r]["node_id"] = t.data[p]["node_id"]
               /\ t.data[r]["createdAt"] > t.data[p]["createdAt"])
              => t.data[q]["createdAt"] <= t.data[r]["createdAt"]}

RowsOfNode(t, n) == {p \in DOMAIN t.data : t.data[p]["node_id"] = n}

\* C1: every feature table preprocess_data returns, in training mode (the X
\* of the pair) and in inference mode, has exactly the columns
\* humidity_percent, raw_value, rssi, voltage, sampling_interval, hour,
\* day_of_week in that order, whatever columns the input table had.
C1_FeatureColumns ==
    PreReturned =>
        /\ preResult.X.columns = features
        /\ \A i \in DOMAIN preResult.X.data :
              DOMAIN preResult.X.data[i] = Range(features)

C1_Witness ==
    /\ PreReturned
    /\ isTraining
    /\ arg.columns = CsvColumns
    /\ Len(preResult.X.data) >= 2

\* C2: in training mode every row kept for a node has as humidity_future the
\* humidity_percent of the chronologically next reading (by createdAt) of
\* the same node, whatever the order of the rows in the table and however
\* the nodes' readings are interleaved.
C2_TargetIsNextReading ==
    (PreReturned /\ isTraining) =>
        /\ Len(preResult.y) = Len(preResult.X.data)
        /\ \A i \in DOMAIN preResult.X.data :
              /\ NextReadings(df, SourcePos(i)) # {}
              /\ \A q \in NextReadings(df, SourcePos(i)) :
                    preResult.y[i] = df.data[q]["humidity_percent"]

\* Three readings of node 1 out of chronological order, a reading of node 2
\* between them, and targets that differ.
C2_Witness ==
    /\ PreReturned
    /\ isTraining
    /\ Len(arg.data) = 4
    /\ Cardinality(RowsOfNode(df, 1)) = 3
    /\ df.data[1]["node_id"] = 1
    /\ df.data[2]["node_id"] = 2
    /\ df.data[1]["createdAt"] > df.data[3]["createdAt"]
    /\ Len(preResult.y) = 2
    /\ preResult.y[1] # preResult.y[2]

Defaulted(c) ==
    /\ ~HasColumn(arg, c)
    /\ ~(c \in {"hour", "day_of_week"} /\ HasColumn(arg, "createdAt"))

DefaultsAreZero ==
    \A i \in DOMAIN preResult.X.data :
        \A c \in Range(features) : Defaulted(c) => preResult.X.data[i][c] = 0

MinOf(a, b) == IF a < b THEN a ELSE b

EvalDone == evalPc = "done"

FoldCountIsMin == nSplits # 0 => nSplits = MinOf(evalK, evalN)

\* With two folds or more: exactly min(k, n) folds behind a result, and no
\* error from the fold count.
RunsMinFolds ==
    (EvalDone /\ MinOf(evalK, evalN) >= 2) =>
        /\ evalResult.error # "ValueError"
        /\ evalResult.kind = "return" =>
              (Len(foldsRun) = MinOf(evalK, evalN) /\ evalResult = CvMetrics(foldsRun))

\* C4 as stated: evaluate uses min(k, n) folds, and whenever min(k, n) is
\* below 2 it skips cross-validation and returns {rmse_mean: 0.0,
\* rmse_std: 0.0} without raising; k = 10 on 4 rows runs 4 folds.
C4_SkipsWheneverBelowTwoFolds ==
    /\ FoldCountIsMin
    /\ RunsMinFolds
    /\ (EvalDone /\ MinOf(evalK, evalN) < 2) =>
          (evalResult = DegenerateMetrics /\ foldsRun = << >>)

\* C4 as amended: evaluate uses min(k, n) folds; it skips cross-validation
\* and returns the zero metrics when the dataset is smaller than the
\* requested k and has fewer than 2 rows; a requested k below 2 on a dataset
\* of at least k rows is not skipped but handed to KFold, which raises a
\* ValueError; k = 10 on 4 rows runs 4 folds.
C4_SkipsOnSmallDataset ==
    /\ FoldCountIsMin
    /\ RunsMinFolds
    /\ (EvalDone /\ evalN < evalK /\ evalN < 2) =>
          (evalResult = DegenerateMetrics /\ foldsRun = << >>)
    /\ (EvalDone /\ evalK <= evalN /\ evalK < 2) =>
          (evalResult = EvalRaise("ValueError") /\ foldsRun = << >>)

\* Ten folds requested on four rows: four folds run, metrics returned.
C4_Witness ==
    /\ EvalDone
    /\ evalK = 10
    /\ evalN = 4
    /\ Len(foldsRun) = 4
    /\ evalResult.kind = "return"

(***************************************************************************)
(* Properties of the predictor (SpecPredict).                              *)
(***************************************************************************)
PredictOutput ==
    /\ predPc # "exited" => (predStdout = << >> /\ predExit = << >>)
    /\ predPc = "exited" =>
          /\ Len(predStdout) = 1
          /\ predExit \in {<<0>>, <<1>>}
          /\ predExit = <<0>> <=> IsSuccessShape(predStdout[1])
          /\ predExit # <<0>> <=> IsErrorShape(predStdout[1])

\* C5: every invocation of the predictor writes exactly one object to
\* stdout and then ends; the exit status is 0 exactly when the object is the
\* success shape with humidity_future_prediction, and non-zero exactly when
\* it is an error object.  Nothing is written before the end, and every run
\* reaches its end.
C5_OneObjectAndStatus == [](PredictOutput) /\ <>(predPc = "exited")

\* The model's predict failed and the handler reported it.
C5_Witness ==
    /\ predPc = "exited"
    /\ predExit = <<1>>
    /\ predStdout = <<FailedObject("CapabilityFailure")>>

\* C6: with fewer than 7 positional arguments the predictor emits an error
\* object and exits non-zero, and the run enters no step but the check of
\* the argument count: no parsing, feature building, model loading or
\* prediction.
C6_ArgumentCheckFirst ==
    Len(argv) < 7 =>
        /\ Range(predSteps) \subseteq {"check"}
        /\ predPc \in {"check", "exited"}
        /\ xNew = NoFrame
        /\ predPc = "exited" =>
              (predStdout = <<InsufficientArgs>> /\ predExit = <<1>>)

\* Six well-formed arguments and a model on disk.
C6_Witness ==
    /\ Len(argv) = 6
    /\ \A k \in DOMAIN argv : argv[k] = "7"
    /\ modelFile = "present"
    /\ predPc = "exited"
    /\ predExit = <<1>>

(***************************************************************************)
(* Properties of the training pipeline (SpecTrain).                        *)
(***************************************************************************)
RunEnded == trainPc = "exited"

Reported(step) == step \in Range(trainReports)

Entered(step) == step \in Range(trainSteps)

\* C7: the model and the metrics are persisted independently: a failure of
\* save_metrics leaves the model of this run on disk, and a failure of
\* save_model does not keep the run from attempting save_metrics.
C7_IndependentPersistence ==
    RunEnded =>
        /\ Reported("save_metrics") => diskModel = [run |-> runId, complete |-> TRUE]
        /\ Reported("save_model") => Entered("save_metrics")

\* C8 as stated: the exit status is non-zero exactly when the table could
\* not be loaded.
C8_NonZeroOnlyOnLoadFailure ==
    RunEnded => (trainExit # <<0>> <=> Reported("load"))

\* C8 as amended: the exit status is non-zero if the table cannot be loaded
\* or if any later step (feature building, evaluation, final fit, either
\* persistence) raises, and zero exactly when every step succeeded.
C8_ZeroOnlyWhenEveryStepSucceeds ==
    RunEnded =>
        /\ trainExit \in {<<0>>, <<1>>}
        /\ Reported("load") => trainExit = <<1>>
        /\ trainExit = <<0>> <=> trainReports = << >>
        /\ trainExit = <<0>> =>
              trainSteps = <<"load", "preprocess", "evaluate", "train", "save_model",
                             "save_metrics", "finish">>

\* The table was loaded, has no node_id, and feature building raised.
C8_Witness ==
    /\ RunEnded
    /\ trainDf # NoFrame
    /\ ~HasColumn(trainDf, "node_id")
    /\ trainReports = <<"preprocess">>
    /\ trainExit = <<1>>

\* C10: after every run, failed or not, the model on disk and the metrics
\* on disk were written by the same run.
C10_NoPartialSwap ==
    RunEnded => diskModel.run = diskMetrics.run


====
